---- MODULE Spec2Model ----
(***************************************************************************)
(* Hardware Test Execution Engine of the USB camera tester.                *)
(*                                                                         *)
(* The repository ships several front-ends around the same engine.  Four   *)
(* of them are modelled here, each with its own state:                     *)
(*   "pyqt6"      main_pyqt6.py      CameraThread / TestWorker / GUI (Qt)   *)
(*   "main"       main.py            CameraHardwareTester (Tk, threads)    *)
(*   "complete"   main_complete.py   run_tests / stop_tests (Tk)           *)
(*   "redesigned" main_redesigned.py camera_worker and its queues (Tk)     *)
(* The variable frontend records which program was launched; the actions   *)
(* of a front-end only fire in that program.  The probe library of main.py *)
(* is modelled separately as functions over a device-control state.        *)
(***************************************************************************)
EXTENDS Integers, Sequences, FiniteSets, TLC

VARIABLES frontend,        \* which program is running
          camera_thread,   \* pyqt6: CameraThread fields
          test_worker,     \* pyqt6: TestWorker fields and position in run()
          signals,         \* pyqt6: signals emitted by the worker / delivered to the GUI
          gui,             \* pyqt6: ProfessionalCameraTestGUI fields
          obs,             \* pyqt6: observations of the current run (history)
          tester,          \* main.py: CameraHardwareTester fields
          handles,         \* main.py: every VideoCapture object created so far
          threads,         \* main.py: the _run_test_sequence threads
          tk_obs,          \* main.py: observations of the latest run (history)
          complete,        \* main_complete.py: CameraHardwareTester fields
          cthreads,        \* main_complete.py: the run_tests_thread threads
          device,          \* the camera behind the handle: modes and controls
          last_probe,      \* what the last probe run on the device did (history)
          redesigned,      \* main_redesigned.py: ModernCameraTestSuite fields
          command_queue,   \* main_redesigned.py: commands queued by the buttons
          result_queue,    \* main_redesigned.py: results queued for the UI thread
          preview_queue,   \* main_redesigned.py: the frame mailbox
          worker,          \* main_redesigned.py: position of camera_worker
          rd_obs,          \* main_redesigned.py: frames read and displayed, and a
                           \* stop enqueued during the run (history)
          cli              \* cli.py: CLITester results and the file it saved

vars == <<frontend, camera_thread, test_worker, signals, gui, obs,
          tester, handles, threads, tk_obs, complete, cthreads,
          device, last_probe,
          redesigned, command_queue, result_queue, preview_queue, worker, rd_obs,
          cli>>

qt_vars == <<camera_thread, test_worker, signals, gui, obs>>

tk_vars == <<tester, handles, threads, tk_obs>>

complete_vars == <<complete, cthreads>>

probe_vars == <<device, last_probe>>

redesigned_vars == <<redesigned, command_queue, result_queue, preview_queue,
                     worker, rd_obs>>

\* what the actions of one front-end leave alone
not_qt == <<tk_vars, complete_vars, probe_vars, redesigned_vars, cli>>
not_tk == <<qt_vars, complete_vars, probe_vars, redesigned_vars, cli>>
not_complete == <<qt_vars, tk_vars, probe_vars, redesigned_vars, cli>>
not_probe == <<qt_vars, tk_vars, complete_vars, redesigned_vars, cli>>
not_redesigned == <<qt_vars, tk_vars, complete_vars, probe_vars, cli>>
not_cli == <<qt_vars, tk_vars, complete_vars, probe_vars, redesigned_vars>>

(***************************************************************************)
(* Helpers                                                                 *)
(***************************************************************************)

\* [x for i, x in enumerate(s) if i in S]: the list comprehension used to
\* collect the checked test keys, in dictionary (insertion) order.
Pick(s, S) ==
  LET F[i \in 0..Len(s)] ==
        IF i = 0 THEN <<>>
        ELSE IF i \in S THEN Append(F[i-1], s[i]) ELSE F[i-1]
  IN F[Len(s)]

Selections(s) == {Pick(s, S) : S \in SUBSET (1..Len(s))}

Range(s) == {s[k] : k \in DOMAIN s}

\* The device as the probes see it during one probe execution.
\*   frame : read() returns a frame
\*   res   : some candidate resolution is echoed back by get()
\*   v4l2  : what the V4L2 settings check runs into
\*   fault : the probe body runs into an unexpected error
Device == [frame : BOOLEAN, res : BOOLEAN, v4l2 : {"RAISE", "PASS", "FAIL"},
           fault : BOOLEAN]

NoReport == <<>>

(***************************************************************************)
(* pyqt6 front-end: probes                                                 *)
(***************************************************************************)

\* The checkbox keys modelled (a prefix-closed choice of comprehensive_tests).
QtTests == <<"basic", "resolution", "exposure", "v4l2">>

get_test_name(test_key) ==
  CASE test_key = "basic"      -> "Connection & Detection"
    [] test_key = "resolution" -> "Resolution Validation"
    [] test_key = "exposure"   -> "Exposure Control"
    [] test_key = "v4l2"       -> "V4L2 Optimal Settings"
    [] OTHER                   -> test_key

\* test_connection: every exception is swallowed, so a missing camera is a FAIL.
test_connection(camera, dev) ==
  IF camera = "open" /\ dev.frame THEN "PASS" ELSE "FAIL"

\* test_resolution: no try block; camera None raises AttributeError.
test_resolution(camera, dev) ==
  IF camera = "none" THEN "RAISE"
  ELSE IF camera = "open" /\ dev.res THEN "PASS" ELSE "FAIL"

test_exposure(camera, dev) == "PASS"

\* test_v4l2_settings: the SKIP results are built with an unknown keyword
\* argument and TestStatus.WARNING does not exist, so these paths raise.
test_v4l2_settings(camera, dev) == dev.v4l2

test_placeholder(camera, dev) == "SKIP"

\* ModernCameraTestSuite.execute_test: the status returned, or "RAISE".
execute_test(test_key, camera, dev) ==
  CASE test_key = "basic"      -> test_connection(camera, dev)
    [] test_key = "resolution" -> test_resolution(camera, dev)
    [] test_key = "exposure"   -> test_exposure(camera, dev)
    [] test_key = "v4l2"       -> test_v4l2_settings(camera, dev)
    [] OTHER                   -> test_placeholder(camera, dev)

(***************************************************************************)
(* pyqt6 front-end: signals                                                *)
(***************************************************************************)

Sig(s, test, status, value) ==
  [sig |-> s, test |-> test, status |-> status, value |-> value]

Emit(evs) == [signals EXCEPT !.emitted = signals.emitted \o evs]

Pending == signals.delivered < Len(signals.emitted)

NextSignal == signals.emitted[signals.delivered + 1]

\* status recorded by TestWorker.run for an exception escaping execute_test
WorkerErrorStatus == "ERROR"

\* int((i / total_tests) * 100)
Progress(i, total) == (i * 100) \div total

(***************************************************************************)
(* pyqt6 front-end: TestWorker.run                                         *)
(***************************************************************************)

\* Loop head: the for statement and the should_stop check; either the next
\* probe is announced or the run ends with progress 100 and all_tests_completed.
TestWorker_run_next ==
  /\ frontend = "pyqt6"
  /\ test_worker.pc = "loop"
  /\ LET i     == test_worker.i
         total == Len(test_worker.tests_to_run)
     IN IF i < total /\ ~test_worker.should_stop
        THEN /\ signals' = Emit(<<Sig("progress_updated", "", "", Progress(i, total)),
                                  Sig("test_started", test_worker.tests_to_run[i+1], "", 0)>>)
             /\ test_worker' = [test_worker EXCEPT !.pc = "probe"]
        ELSE /\ signals' = Emit(<<Sig("progress_updated", "", "", 100),
                                  Sig("all_tests_completed", "", "", 0)>>)
             /\ test_worker' = [test_worker EXCEPT !.pc = "idle"]
  /\ UNCHANGED <<frontend, camera_thread, gui, obs, not_qt>>

\* TestWorker.run without its except clause: an escaping exception ends the
\* probe with no test_completed signal.
TestWorker_run_probe_uncaught ==
  /\ frontend = "pyqt6"
  /\ test_worker.pc = "probe"
  /\ \E dev \in Device :
       LET key == test_worker.tests_to_run[test_worker.i + 1]
           out == execute_test(key, camera_thread.camera, dev)
       IN /\ signals' = IF out = "RAISE" THEN signals
                        ELSE Emit(<<Sig("test_completed", key, out, 0)>>)
          /\ obs' = IF out = "RAISE"
                    THEN [obs EXCEPT !.raised = @ \cup {test_worker.i + 1}] ELSE obs
  /\ test_worker' = [test_worker EXCEPT !.pc = "loop", !.i = @ + 1]
  /\ UNCHANGED <<frontend, camera_thread, gui, not_qt>>

\* The probe returns or raises; exactly one test_completed is emitted, then
\* the 0.5 s pause and the next loop iteration.
TestWorker_run_probe ==
  /\ frontend = "pyqt6"
  /\ test_worker.pc = "probe"
  /\ \E dev \in Device :
       LET key == test_worker.tests_to_run[test_worker.i + 1]
           out == execute_test(key, camera_thread.camera, dev)
           st  == IF out = "RAISE" THEN WorkerErrorStatus ELSE out
       IN /\ signals' = Emit(<<Sig("test_completed", key, st, 0)>>)
          /\ obs' = IF out = "RAISE"
                    THEN [obs EXCEPT !.raised = @ \cup {test_worker.i + 1}] ELSE obs
  /\ test_worker' = [test_worker EXCEPT !.pc = "loop", !.i = @ + 1]
  /\ UNCHANGED <<frontend, camera_thread, gui, not_qt>>

(***************************************************************************)
(* pyqt6 front-end: GUI handlers                                           *)
(***************************************************************************)

\* start_testing: reset the results, disable the run buttons, set_tests, start().
start_testing(test_list) ==
  /\ gui' = [gui EXCEPT !.test_results = <<>>, !.buttons_enabled = FALSE,
                        !.progress_bar = 0, !.reported = NoReport]
  /\ test_worker' = [pc |-> "loop", tests_to_run |-> test_list,
                     should_stop |-> FALSE, i |-> 0]
  /\ signals' = [emitted |-> <<>>, delivered |-> 0]
  /\ obs' = [stop_during |-> 0, cleared |-> FALSE, raised |-> {}]

run_selected_tests ==
  /\ frontend = "pyqt6"
  /\ gui.buttons_enabled
  /\ IF camera_thread.camera = "none"
     THEN /\ gui' = [gui EXCEPT !.warning = "No Camera"]
          /\ UNCHANGED <<test_worker, signals, obs>>
     ELSE \E selected_tests \in Selections(QtTests) :
            IF selected_tests = <<>>
            THEN /\ gui' = [gui EXCEPT !.warning = "No Tests"]
                 /\ UNCHANGED <<test_worker, signals, obs>>
            ELSE start_testing(selected_tests)
  /\ UNCHANGED <<frontend, camera_thread, not_qt>>

run_all_tests ==
  /\ frontend = "pyqt6"
  /\ gui.buttons_enabled
  /\ IF camera_thread.camera = "none"
     THEN /\ gui' = [gui EXCEPT !.warning = "No Camera"]
          /\ UNCHANGED <<test_worker, signals, obs>>
     ELSE start_testing(QtTests)
  /\ UNCHANGED <<frontend, camera_thread, not_qt>>

\* stop_tests: TestWorker.stop_tests sets the flag; the button is never disabled.
stop_tests ==
  /\ frontend = "pyqt6"
  /\ test_worker' = [test_worker EXCEPT !.should_stop = TRUE]
  /\ obs' = IF test_worker.pc = "probe" /\ ~test_worker.should_stop
            THEN [obs EXCEPT !.stop_during = test_worker.i + 1]
            ELSE obs
  /\ UNCHANGED <<frontend, camera_thread, signals, gui, not_qt>>

clear_results ==
  /\ frontend = "pyqt6"
  /\ gui' = [gui EXCEPT !.test_results = <<>>]
  /\ obs' = [obs EXCEPT !.cleared = TRUE]
  /\ UNCHANGED <<frontend, camera_thread, test_worker, signals, not_qt>>

on_progress_updated ==
  /\ frontend = "pyqt6"
  /\ Pending /\ NextSignal.sig = "progress_updated"
  /\ gui' = [gui EXCEPT !.progress_bar = NextSignal.value]
  /\ signals' = [signals EXCEPT !.delivered = @ + 1]
  /\ UNCHANGED <<frontend, camera_thread, test_worker, obs, not_qt>>

on_test_started ==
  /\ frontend = "pyqt6"
  /\ Pending /\ NextSignal.sig = "test_started"
  /\ signals' = [signals EXCEPT !.delivered = @ + 1]
  /\ UNCHANGED <<frontend, camera_thread, test_worker, gui, obs, not_qt>>

on_test_completed ==
  /\ frontend = "pyqt6"
  /\ Pending /\ NextSignal.sig = "test_completed"
  /\ gui' = [gui EXCEPT !.test_results =
                 Append(@, [test_name |-> get_test_name(NextSignal.test),
                            status |-> NextSignal.status])]
  /\ signals' = [signals EXCEPT !.delivered = @ + 1]
  /\ UNCHANGED <<frontend, camera_thread, test_worker, obs, not_qt>>

\* "Completed N tests" with N = len(self.test_results); run buttons re-enabled.
on_all_tests_completed ==
  /\ frontend = "pyqt6"
  /\ Pending /\ NextSignal.sig = "all_tests_completed"
  /\ gui' = [gui EXCEPT !.reported = <<Len(gui.test_results)>>, !.buttons_enabled = TRUE]
  /\ signals' = [signals EXCEPT !.delivered = @ + 1]
  /\ UNCHANGED <<frontend, camera_thread, test_worker, obs, not_qt>>

(***************************************************************************)
(* pyqt6 front-end: camera connection                                      *)
(***************************************************************************)

\* CameraThread.connect_camera: release the old handle, open, and keep the
\* new handle only if it is opened and a frame can be read; otherwise release.
CameraThread_connect_camera(opened, frame) ==
  IF opened /\ frame THEN "open" ELSE "none"

manual_connect_camera ==
  /\ frontend = "pyqt6"
  /\ \E opened \in BOOLEAN, frame \in BOOLEAN :
       camera_thread' = [camera_thread EXCEPT
                           !.camera = CameraThread_connect_camera(opened, frame),
                           !.disconnected = FALSE]
  /\ UNCHANGED <<frontend, test_worker, signals, gui, obs, not_qt>>

\* GUI disconnect_camera: stop_preview if running, then CameraThread.disconnect_camera.
\* The history field disconnected records that this happened while the
\* preview thread was executing run().
disconnect_camera ==
  /\ frontend = "pyqt6"
  /\ camera_thread' = [camera_thread EXCEPT !.running = FALSE, !.camera = "none",
                                             !.disconnected = (camera_thread.run # "idle")]
  /\ UNCHANGED <<frontend, test_worker, signals, gui, obs, not_qt>>

(***************************************************************************)
(* pyqt6 front-end: the preview thread (CameraThread.run)                  *)
(***************************************************************************)

\* consecutive failed reads counted by the history field fails (saturating)
MaxFails == 3

\* CameraThread.start_preview: running = True; self.start().  QThread.start()
\* does nothing when the thread is still executing run().
CameraThread_start_preview(ct) ==
  [ct EXCEPT !.running = TRUE,
             !.run = IF @ = "idle" THEN "loop" ELSE @,
             !.fails = IF ct.run = "idle" THEN 0 ELSE @,
             !.signal = IF ct.run = "idle" THEN "none" ELSE @]

\* CameraThread.stop_preview: running = False.
CameraThread_stop_preview(ct) == [ct EXCEPT !.running = FALSE]

\* toggle_preview: warn without a camera, else stop or start the preview.
toggle_preview ==
  /\ frontend = "pyqt6"
  /\ IF camera_thread.camera = "none"
     THEN /\ gui' = [gui EXCEPT !.warning = "No Camera"]
          /\ UNCHANGED camera_thread
     ELSE /\ camera_thread' = IF camera_thread.running
                              THEN CameraThread_stop_preview(camera_thread)
                              ELSE CameraThread_start_preview(camera_thread)
          /\ UNCHANGED gui
  /\ UNCHANGED <<frontend, test_worker, signals, obs, not_qt>>

\* CameraThread.run, the loop test: while self.running and self.camera.
CameraThread_run_loop ==
  /\ frontend = "pyqt6"
  /\ camera_thread.run = "loop"
  /\ camera_thread' = [camera_thread EXCEPT
                         !.run = IF camera_thread.running /\ camera_thread.camera # "none"
                                 THEN "read" ELSE "idle"]
  /\ UNCHANGED <<frontend, test_worker, signals, gui, obs, not_qt>>

\* CameraThread.run, the body: ret, frame = self.camera.read(); a good frame
\* is emitted as frame_ready, a failed read is dropped, and an exception (the
\* handle was set to None meanwhile, or the driver raised) is emitted as
\* error_occurred and ends the loop.
CameraThread_run_read ==
  /\ frontend = "pyqt6"
  /\ camera_thread.run = "read"
  /\ \E ret \in BOOLEAN, raised \in BOOLEAN :
       camera_thread' =
         IF raised \/ camera_thread.camera = "none"
         THEN [camera_thread EXCEPT !.run = "idle", !.signal = "error_occurred"]
         ELSE IF ret
         THEN [camera_thread EXCEPT !.run = "loop", !.fails = 0,
                                    !.signal = "frame_ready"]
         ELSE [camera_thread EXCEPT !.run = "loop",
                                    !.fails = IF @ < MaxFails THEN @ + 1 ELSE @]
  /\ UNCHANGED <<frontend, test_worker, signals, gui, obs, not_qt>>

NextQt ==
  \/ TestWorker_run_next
  \/ TestWorker_run_probe
  \/ run_selected_tests
  \/ run_all_tests
  \/ stop_tests
  \/ clear_results
  \/ on_progress_updated
  \/ on_test_started
  \/ on_test_completed
  \/ on_all_tests_completed
  \/ manual_connect_camera
  \/ disconnect_camera

\* The preview thread next to one run of the whole test list.
NextPreview ==
  \/ manual_connect_camera
  \/ disconnect_camera
  \/ toggle_preview
  \/ CameraThread_run_loop
  \/ CameraThread_run_read
  \/ run_all_tests
  \/ TestWorker_run_next
  \/ TestWorker_run_probe

(***************************************************************************)
(* main.py front-end: camera handle                                        *)
(***************************************************************************)

MaxHandles == 2      \* VideoCapture objects created in one session
MaxRuns == 2         \* test sequences started in one session

HandleIds == 1..MaxHandles
RunIds == 1..MaxRuns
None == 0            \* self.camera = None

\* self.camera and self.camera.isOpened()
IsOpened(h) == h # None /\ handles[h] = "open"

FreeHandles == {h \in HandleIds : handles[h] = "unused"}
NewHandle == CHOOSE h \in FreeHandles : \A g \in FreeHandles : h <= g

\* cv2.VideoCapture(camera_index): a new object, opened or not.
VideoCapture(h, opened) ==
  [handles EXCEPT ![h] = IF opened THEN "open" ELSE "unopened"]

\* start_preview: update_preview runs once at once and re-arms itself with
\* root.after while the camera is opened.
start_preview(t, h, hs) ==
  IF h # None /\ hs[h] = "open"
  THEN [t EXCEPT !.preview_chains = @ + 1] ELSE t

\* connect_camera / _connect_camera_internal: self.camera is assigned the new
\* VideoCapture; on failure the exception is reported and the unopened
\* object stays in self.camera.
connect_camera ==
  /\ frontend = "main"
  /\ FreeHandles # {}
  /\ \E opened \in BOOLEAN :
       LET h  == NewHandle
           hs == VideoCapture(h, opened)
       IN /\ handles' = hs
          /\ tester' = start_preview([tester EXCEPT !.camera = h], h, hs)
  /\ UNCHANGED <<frontend, not_tk, threads, tk_obs>>

\* disconnect_camera (main.py)
tk_disconnect_camera ==
  /\ frontend = "main"
  /\ tester.camera # None
  /\ handles' = [handles EXCEPT ![tester.camera] = "released"]
  /\ tester' = [tester EXCEPT !.camera = None]
  /\ UNCHANGED <<frontend, not_tk, threads, tk_obs>>

\* A VideoCapture object nothing refers to any more is finalized by the
\* runtime, which closes the device.
Finalize ==
  /\ frontend = "main"
  /\ \E h \in HandleIds :
       /\ handles[h] = "open" /\ h # tester.camera
       /\ handles' = [handles EXCEPT ![h] = "released"]
  /\ UNCHANGED <<frontend, not_tk, tester, threads, tk_obs>>

\* update_preview callback: with the camera opened it reads a frame and
\* re-arms itself; otherwise the callback chain ends.
update_preview ==
  /\ frontend = "main"
  /\ tester.preview_chains > 0
  /\ ~IsOpened(tester.camera)
  /\ tester' = [tester EXCEPT !.preview_chains = @ - 1]
  /\ UNCHANGED <<frontend, not_tk, handles, threads, tk_obs>>

(***************************************************************************)
(* main.py front-end: probes                                               *)
(***************************************************************************)

\* The check boxes modelled (the first entries of test_names).
TkTests == <<"Camera Detection", "Resolution Test">>

TestResult(test_name, status, message) ==
  [test_name |-> test_name, status |-> status, message |-> message]

\* _test_camera_detection: FAIL when no frame can be read; an error in the
\* body (the handle set to None meanwhile, a frame without shape) raises.
_test_camera_detection(camera, dev) ==
  IF camera = None \/ dev.fault THEN "RAISE"
  ELSE IF IsOpened(camera) /\ dev.frame THEN "PASS" ELSE "FAIL"

\* _test_resolution: PASS iff some candidate is echoed back by the device.
_test_resolution(camera, dev) ==
  IF camera = None \/ dev.fault THEN "RAISE"
  ELSE IF IsOpened(camera) /\ dev.res THEN "PASS" ELSE "FAIL"

\* the status TestWorker.run uses, which main.py does not have
SingleTestErrorStatus_as_error == "ERROR"

\* status given by _run_single_test to an exception escaping a probe
SingleTestErrorStatus == "FAIL"

\* _run_single_test after its connection guard: dispatch on the name; an
\* exception escaping the probe becomes a "Test error" result.
_run_single_test(test_name, camera, dev) ==
  LET out == CASE test_name = "Camera Detection" -> _test_camera_detection(camera, dev)
               [] test_name = "Resolution Test"  -> _test_resolution(camera, dev)
               [] OTHER                          -> "SKIP"
  IN IF out = "RAISE"
     THEN TestResult(test_name, SingleTestErrorStatus, "Test error")
     ELSE IF out = "SKIP"
     THEN TestResult(test_name, "SKIP", "Test not implemented")
     ELSE TestResult(test_name, out, "ok")

(***************************************************************************)
(* main.py front-end: run_tests, stop_tests, _run_test_sequence            *)
(***************************************************************************)

\* threads[r] is the thread of the r-th test sequence of the session.
NoThread == [pc |-> "unused", test_names |-> <<>>, i |-> 0]
DeadThread == [pc |-> "done", test_names |-> <<>>, i |-> 0]

Live(ths) == {t \in DOMAIN ths : ths[t].pc \in {"head", "probe", "post"}}
FreeRuns == {r \in RunIds : threads[r].pc = "unused"}
NewRun == CHOOSE r \in FreeRuns : \A q \in FreeRuns : r <= q

\* run_tests.  Without a camera it first runs the auto-detection, which
\* connects to the first USB camera found (auto_connect_first_camera).
run_tests ==
  /\ frontend = "main"
  /\ FreeRuns # {}
  /\ \E found \in BOOLEAN, opened \in BOOLEAN, selected_tests \in Selections(TkTests) :
       LET auto == tester.camera = None /\ found /\ FreeHandles # {}
           h    == IF auto THEN NewHandle ELSE tester.camera
           hs   == IF auto THEN VideoCapture(h, opened) ELSE handles
           t1   == IF auto THEN start_preview([tester EXCEPT !.camera = h], h, hs)
                   ELSE tester
       IN /\ handles' = hs
          /\ IF h = None \/ tester.is_testing \/ selected_tests = <<>>
             THEN /\ tester' = t1
                  /\ UNCHANGED <<threads, tk_obs>>
             ELSE /\ tester' = [t1 EXCEPT !.is_testing = TRUE, !.test_results = <<>>]
                  /\ threads' = [threads EXCEPT ![NewRun] =
                                   [pc |-> "head", test_names |-> selected_tests, i |-> 0]]
                  /\ tk_obs' = [tk_obs EXCEPT !.cleared = FALSE]
  /\ UNCHANGED <<frontend, not_tk>>

\* stop_tests (main.py)
tk_stop_tests ==
  /\ frontend = "main"
  /\ tester' = [tester EXCEPT !.is_testing = FALSE]
  /\ UNCHANGED <<frontend, not_tk, handles, threads, tk_obs>>

\* clear_results (main.py)
tk_clear_results ==
  /\ frontend = "main"
  /\ tester' = [tester EXCEPT !.test_results = <<>>]
  /\ tk_obs' = [tk_obs EXCEPT !.cleared = TRUE]
  /\ UNCHANGED <<frontend, not_tk, handles, threads>>

\* the finally clause and the end of the thread
Finish(t) ==
  /\ threads' = [threads EXCEPT ![t] = DeadThread]
  /\ tester' = [tester EXCEPT !.is_testing = FALSE]

\* Loop head of _run_test_sequence: the is_testing check, then the
\* connection guard of _run_single_test.
_run_test_sequence_head(t) ==
  /\ frontend = "main"
  /\ threads[t].pc = "head"
  /\ LET th == threads[t]
     IN IF th.i >= Len(th.test_names) \/ ~tester.is_testing
        THEN Finish(t)
        ELSE IF ~IsOpened(tester.camera)
        THEN /\ tester' = [tester EXCEPT !.test_results =
                             Append(@, TestResult(th.test_names[th.i + 1], "FAIL",
                                                  "Camera disconnected during testing"))]
             /\ threads' = [threads EXCEPT ![t].pc = "post"]
        ELSE /\ threads' = [threads EXCEPT ![t].pc = "probe"]
             /\ UNCHANGED tester
  /\ UNCHANGED <<frontend, not_tk, handles, tk_obs>>

\* The probe ends: its result, or the "Test error" result, is appended.
_run_test_sequence_probe(t) ==
  /\ frontend = "main"
  /\ threads[t].pc = "probe"
  /\ \E dev \in Device :
       LET th == threads[t]
           r  == _run_single_test(th.test_names[th.i + 1], tester.camera, dev)
       IN tester' = [tester EXCEPT !.test_results = Append(@, r)]
  /\ threads' = [threads EXCEPT ![t].pc = "post"]
  /\ UNCHANGED <<frontend, not_tk, handles, tk_obs>>

\* After the 0.5 s pause: stop the sequence if the camera is gone, else go
\* on with the next test.
_run_test_sequence_post(t) ==
  /\ frontend = "main"
  /\ threads[t].pc = "post"
  /\ IF ~IsOpened(tester.camera)
     THEN Finish(t)
     ELSE /\ threads' = [threads EXCEPT ![t].pc = "head", ![t].i = @ + 1]
          /\ UNCHANGED tester
  /\ UNCHANGED <<frontend, not_tk, handles, tk_obs>>

NextTk ==
  \/ connect_camera
  \/ tk_disconnect_camera
  \/ Finalize
  \/ update_preview
  \/ run_tests
  \/ tk_stop_tests
  \/ tk_clear_results
  \/ \E t \in RunIds : _run_test_sequence_head(t)
  \/ \E t \in RunIds : _run_test_sequence_probe(t)
  \/ \E t \in RunIds : _run_test_sequence_post(t)

(***************************************************************************)
(* main_complete.py front-end                                              *)
(***************************************************************************)

\* The check boxes modelled (the first entries of tests).
CompleteTests == <<"Basic Connection", "Resolution Test">>

\* Names a caller of run_tests can pass: the check boxes and a name that
\* test_functions does not map.
RequestNames == Append(CompleteTests, "Unmapped Test")

\* _test_basic_connection: every exception is caught inside the probe.
_test_basic_connection(camera, dev) ==
  IF camera = "open" /\ dev.frame /\ ~dev.fault THEN "PASS" ELSE "FAIL"

\* _test_resolution (main_complete.py): every exception is caught inside.
complete_test_resolution(camera, dev) ==
  IF camera = "open" /\ dev.res /\ ~dev.fault THEN "PASS" ELSE "FAIL"

\* test_functions of run_tests
test_functions(test_name, camera, dev) ==
  CASE test_name = "Basic Connection" -> _test_basic_connection(camera, dev)
    [] test_name = "Resolution Test"  -> complete_test_resolution(camera, dev)

NoWorker == [pc |-> "unused", test_names |-> <<>>, i |-> 0, made |-> 0]
DeadWorker == [pc |-> "done", test_names |-> <<>>, i |-> 0, made |-> 0]

FreeWorkers == {r \in RunIds : cthreads[r].pc = "unused"}
NewWorker == CHOOSE r \in FreeWorkers : \A q \in FreeWorkers : r <= q

\* connect_camera (main_complete.py): the previous handle is released first.
complete_connect_camera ==
  /\ frontend = "complete"
  /\ \E opened \in BOOLEAN :
       complete' = [complete EXCEPT !.camera = IF opened THEN "open" ELSE "unopened"]
  /\ UNCHANGED <<frontend, not_complete, cthreads>>

\* disconnect_camera (main_complete.py)
complete_disconnect_camera ==
  /\ frontend = "complete"
  /\ complete.camera # "none"
  /\ complete' = [complete EXCEPT !.camera = "none"]
  /\ UNCHANGED <<frontend, not_complete, cthreads>>

\* run_tests(test_names): sets the flag and starts a thread, whatever the
\* state of a previous run.
complete_run_tests(test_names) ==
  /\ FreeWorkers # {}
  /\ complete' = [complete EXCEPT !.is_testing = TRUE]
  /\ cthreads' = [cthreads EXCEPT ![NewWorker] =
                    [pc |-> "head", test_names |-> test_names, i |-> 0, made |-> 0]]
  /\ UNCHANGED <<frontend, not_complete>>

\* run_selected_tests (main_complete.py): needs an opened camera and a
\* non-empty selection.
complete_run_selected_tests ==
  /\ frontend = "complete"
  /\ \E selected_tests \in Selections(CompleteTests) :
       IF complete.camera # "open" \/ selected_tests = <<>>
       THEN UNCHANGED vars
       ELSE complete_run_tests(selected_tests)

\* run_all_tests (main_complete.py)
complete_run_all_tests ==
  /\ frontend = "complete"
  /\ IF complete.camera # "open"
     THEN UNCHANGED vars
     ELSE complete_run_tests(CompleteTests)

\* run_tests called with a list of the caller's choosing
complete_run_tests_call ==
  /\ frontend = "complete"
  /\ \E test_names \in Selections(RequestNames) : complete_run_tests(test_names)

\* stop_tests (main_complete.py)
complete_stop_tests ==
  /\ frontend = "complete"
  /\ complete' = [complete EXCEPT !.is_testing = FALSE]
  /\ UNCHANGED <<frontend, not_complete, cthreads>>

\* clear_results (main_complete.py)
complete_clear_results ==
  /\ frontend = "complete"
  /\ complete' = [complete EXCEPT !.test_results = <<>>]
  /\ UNCHANGED <<frontend, not_complete, cthreads>>

\* Loop head of run_tests_thread: the end of the list or a cleared flag
\* ends the thread through the finally clause; else the test is announced.
run_tests_thread_head(t) ==
  /\ frontend = "complete"
  /\ cthreads[t].pc = "head"
  /\ LET th == cthreads[t]
     IN IF th.i >= Len(th.test_names) \/ ~complete.is_testing
        THEN /\ cthreads' = [cthreads EXCEPT ![t] = DeadWorker]
             /\ complete' = [complete EXCEPT !.is_testing = FALSE]
        ELSE /\ cthreads' = [cthreads EXCEPT ![t].pc = "probe"]
             /\ UNCHANGED complete
  /\ UNCHANGED <<frontend, not_complete>>

\* The body of one iteration: a mapped name is run and its result appended;
\* for any other name nothing is appended.
run_tests_thread_probe(t) ==
  /\ frontend = "complete"
  /\ cthreads[t].pc = "probe"
  /\ LET th == cthreads[t]
         test_name == th.test_names[th.i + 1]
     IN IF test_name \in Range(CompleteTests)
        THEN /\ \E dev \in Device :
                  complete' = [complete EXCEPT !.test_results =
                     Append(@, [test_name |-> test_name,
                                status |-> test_functions(test_name, complete.camera, dev)])]
             /\ cthreads' = [cthreads EXCEPT ![t].pc = "head", ![t].i = @ + 1,
                                             ![t].made = @ + 1]
        ELSE /\ cthreads' = [cthreads EXCEPT ![t].pc = "head", ![t].i = @ + 1]
             /\ UNCHANGED complete
  /\ UNCHANGED <<frontend, not_complete>>

NextComplete ==
  \/ complete_connect_camera
  \/ complete_disconnect_camera
  \/ complete_run_selected_tests
  \/ complete_run_all_tests
  \/ complete_run_tests_call
  \/ complete_stop_tests
  \/ complete_clear_results
  \/ \E t \in RunIds : run_tests_thread_head(t)
  \/ \E t \in RunIds : run_tests_thread_probe(t)

(***************************************************************************)
(* main.py probes that write camera controls                               *)
(*                                                                         *)
(* The device keeps a control at the value written when it implements the  *)
(* control and leaves it alone otherwise; a mode is taken when the device  *)
(* has it.  AUTO_EXPOSURE and AUTO_WB values are in hundredths (0.25 = 25). *)
(* Frames are readable; `responsive` says whether the image measurements   *)
(* follow the controls.                                                    *)
(***************************************************************************)

MaxMode == 5         \* the largest mode a modelled device has (index in ResModes)
MaxMissing == 1      \* controls a modelled device does not implement
MaxProbes == 2       \* probes run on one device

ResModes == <<"320x240", "640x480", "1280x720", "1920x1080", "4000x3000", "8000x6000">>

Controls == {"exposure", "auto_exposure", "brightness", "gain", "auto_wb",
             "wb_temperature", "wb_blue", "wb_red", "autofocus", "focus"}

\* control values of a device just opened
DefaultControls ==
  [exposure |-> 156, auto_exposure |-> 75, brightness |-> 100, gain |-> 10,
   auto_wb |-> 100, wb_temperature |-> 4600, wb_blue |-> 1000, wb_red |-> 1000,
   autofocus |-> 100, focus |-> 30]

Abs(x) == IF x < 0 THEN -x ELSE x
Max(a, b) == IF a >= b THEN a ELSE b
ModeOf(name) == CHOOSE m \in DOMAIN ResModes : ResModes[m] = name

\* camera.set(prop, value)
Set(dv, prop, value) ==
  IF prop \in dv.supported THEN [dv EXCEPT !.controls[prop] = value] ELSE dv

\* camera.set(FRAME_WIDTH, w); camera.set(FRAME_HEIGHT, h)
SetResolution(dv, name) ==
  IF ModeOf(name) <= dv.max_mode THEN [dv EXCEPT !.resolution = ModeOf(name)] ELSE dv

RECURSIVE SetEach(_, _, _)
\* for value in values: camera.set(prop, value)
SetEach(dv, prop, values) ==
  IF values = <<>> THEN dv
  ELSE SetEach(Set(dv, prop, Head(values)), prop, Tail(values))

RECURSIVE SetEachResolution(_, _)
SetEachResolution(dv, names) ==
  IF names = <<>> THEN dv
  ELSE SetEachResolution(SetResolution(dv, Head(names)), Tail(names))

RECURSIVE EchoedModes(_, _)
\* the candidates that get() echoes back after set(), in order
EchoedModes(dv, names) ==
  IF names = <<>> THEN <<>>
  ELSE LET d == SetResolution(dv, Head(names))
       IN (IF d.resolution = ModeOf(Head(names)) THEN <<Head(names)>> ELSE <<>>)
          \o EchoedModes(d, Tail(names))

RECURSIVE Responses(_, _, _)
\* the values get() returns after each set() of the list
Responses(dv, prop, values) ==
  IF values = <<>> THEN {}
  ELSE LET d == Set(dv, prop, Head(values))
       IN {d.controls[prop]} \cup Responses(d, prop, Tail(values))

\* what a probe reports besides its status: the methods it found working
\* and the kind of message it gives
Detail(methods, message) == [methods |-> methods, message |-> message]

NoDetail == Detail({}, "")

ProbeOutcomeWith(dv, status, detail) == [dv |-> dv, status |-> status, detail |-> detail]

ProbeOutcome(dv, status) == ProbeOutcomeWith(dv, status, NoDetail)

\* _test_camera_detection (main.py) on an open handle: FAIL "Cannot read
\* frames from camera" when read() gives no frame.
probe_test_camera_detection(dv) ==
  ProbeOutcome(dv, IF dv.frames THEN "PASS" ELSE "FAIL")

\* _test_resolution (main.py): the three candidates are set in turn and
\* nothing is set afterwards.
probe_test_resolution(dv) ==
  LET test_resolutions == <<"640x480", "1280x720", "1920x1080">>
      supported_resolutions == EchoedModes(dv, test_resolutions)
  IN ProbeOutcome(SetEachResolution(dv, test_resolutions),
                  IF supported_resolutions = <<>> THEN "FAIL" ELSE "PASS")

RECURSIVE DisableAutoExposure(_, _)
\* the first loop of method 1: stop at the first mode that is echoed back
DisableAutoExposure(dv, modes) ==
  IF modes = <<>> THEN dv
  ELSE LET d == Set(dv, "auto_exposure", Head(modes))
       IN IF Abs(d.controls.auto_exposure - Head(modes)) < 10 THEN d
          ELSE DisableAutoExposure(d, Tail(modes))

\* The restore block of _test_exposure_control.
RestoreExposure(dv, orig) ==
  Set(Set(Set(Set(dv, "exposure", orig.exposure),
              "auto_exposure", orig.auto_exposure),
          "brightness", orig.brightness),
      "gain", orig.gain)

\* the evaluation block of _test_exposure_control with auto-exposure alone
\* not accepted
exposure_evaluation_strict(method1_working, auto_exp_working, method2_working) ==
  LET methods == (IF method1_working THEN {"direct"} ELSE {})
                 \cup (IF auto_exp_working THEN {"auto"} ELSE {})
                 \cup (IF method2_working THEN {"alternative"} ELSE {})
      exposure_methods_working == Cardinality(methods)
  IN IF exposure_methods_working >= 2
     THEN [status |-> "PASS", detail |-> Detail(methods, "PHOTOBOOTH READY")]
     ELSE IF exposure_methods_working = 1
     THEN [status |-> "FAIL", detail |-> Detail(methods, "LIMITED")]
     ELSE [status |-> "FAIL", detail |-> Detail(methods, "FAILED")]

\* the evaluation block of _test_exposure_control ("STRICT CRITERIA")
exposure_evaluation(method1_working, auto_exp_working, method2_working) ==
  LET methods == (IF method1_working THEN {"direct"} ELSE {})
                 \cup (IF auto_exp_working THEN {"auto"} ELSE {})
                 \cup (IF method2_working THEN {"alternative"} ELSE {})
      exposure_methods_working == Cardinality(methods)
  IN IF exposure_methods_working >= 2
     THEN [status |-> "PASS", detail |-> Detail(methods, "PHOTOBOOTH READY")]
     ELSE IF exposure_methods_working = 1 /\ auto_exp_working
     THEN [status |-> "PASS", detail |-> Detail(methods, "limited manual control")]
     ELSE IF exposure_methods_working = 1
     THEN [status |-> "FAIL", detail |-> Detail(methods, "LIMITED")]
     ELSE [status |-> "FAIL", detail |-> Detail(methods, "FAILED")]

\* _test_exposure_control.  fail_at names the method during which an
\* exception reaches the outer handler ("none": no exception); brighter says
\* that the frames read around a set() differ in mean brightness (a failed
\* read counts as brightness 0, so without frames there is no difference).
_test_exposure_control(dv, fail_at, brighter) ==
  LET orig == dv.controls
      test_exposures == <<-10, -7, -4, -1, 1, 10, 50, 100, 200, 500, 1000>>
      brightness_values == <<0, 32, 64, 128, 192, 255>>
      gain_values == <<0, 25, 50, 100, 200>>
      auto_modes == <<25, 75, 0, 100, 300>>
      d0 == DisableAutoExposure(dv, <<25, 0, 100, 300>>)
      d1 == SetEach(d0, "exposure", test_exposures)
      d2 == SetEach(SetEach(d1, "brightness", brightness_values), "gain", gain_values)
      d3 == SetEach(d2, "auto_exposure", auto_modes)
      brightness_change == dv.frames /\ brighter
      method1_working ==
        \/ brightness_change
        \/ \E k \in DOMAIN test_exposures :
          LET v == test_exposures[k]
              actual == Set(dv, "exposure", v).controls.exposure
          IN 100 * Abs(actual - v) < Max(100, 15 * Abs(v))
      method2_working ==
        \/ brightness_change
        \/ \E k \in DOMAIN brightness_values :
             Abs(Set(dv, "brightness", brightness_values[k]).controls.brightness
                 - brightness_values[k]) < 5
        \/ \E k \in DOMAIN gain_values :
             10 * Abs(Set(dv, "gain", gain_values[k]).controls.gain - gain_values[k])
               < Max(50, gain_values[k])
      auto_exp_working == Cardinality(Responses(d2, "auto_exposure", auto_modes)) > 1
      evaluation == exposure_evaluation(method1_working, auto_exp_working,
                                        method2_working)
  IN CASE fail_at = "method1" -> ProbeOutcome(d1, "FAIL")
       [] fail_at = "method2" -> ProbeOutcome(d2, "FAIL")
       [] fail_at = "method3" -> ProbeOutcome(d3, "FAIL")
       [] OTHER ->
            ProbeOutcomeWith(RestoreExposure(d3, orig), evaluation.status,
                             evaluation.detail)

\* the evaluation block of _test_white_balance with a working auto white
\* balance not enough on its own
white_balance_evaluation_manual(methods, methods_tested) ==
  LET working_methods == Cardinality(methods)
  IN IF "auto" \in methods /\ working_methods >= 2
     THEN [status |-> "PASS", detail |-> Detail(methods, "PHOTOBOOTH READY")]
     ELSE IF working_methods > 0
     THEN [status |-> "FAIL", detail |-> Detail(methods, "NOT PHOTOBOOTH COMPATIBLE")]
     ELSE IF methods_tested > 0
     THEN [status |-> "FAIL", detail |-> Detail(methods, "NOT RESPONDING")]
     ELSE [status |-> "SKIP", detail |-> Detail(methods, "No white balance controls")]

\* the evaluation block of _test_white_balance ("STRICT CRITERIA")
white_balance_evaluation(methods, methods_tested) ==
  LET working_methods == Cardinality(methods)
  IN IF "auto" \in methods /\ working_methods >= 2
     THEN [status |-> "PASS", detail |-> Detail(methods, "PHOTOBOOTH READY")]
     ELSE IF "auto" \in methods
     THEN [status |-> "PASS", detail |-> Detail(methods, "limited manual control")]
     ELSE IF working_methods > 0
     THEN [status |-> "FAIL", detail |-> Detail(methods, "NOT PHOTOBOOTH COMPATIBLE")]
     ELSE IF methods_tested > 0
     THEN [status |-> "FAIL", detail |-> Detail(methods, "NOT RESPONDING")]
     ELSE [status |-> "SKIP", detail |-> Detail(methods, "No white balance controls")]

\* _test_white_balance: the restore block writes AUTO_WB and WB_TEMPERATURE
\* only.  Each of the three test blocks stores its entry in wb_results, in
\* its try or in its except branch, so all three count as tested.
_test_white_balance(dv, responsive) ==
  LET orig == dv.controls
      auto_wb_modes == <<0, 100, 25, 75>>
      test_temps == <<2800, 4000, 5600, 6500, 8000>>
      rgb_values == <<0, 2048, 4096>>
      d1 == SetEach(dv, "auto_wb", auto_wb_modes)
      d2 == SetEach(Set(d1, "auto_wb", 0), "wb_temperature", test_temps)
      d3 == SetEach(SetEach(d2, "wb_blue", rgb_values), "wb_red", rgb_values)
      d4 == Set(Set(d3, "auto_wb", orig.auto_wb), "wb_temperature", orig.wb_temperature)
      auto_wb_working == "auto_wb" \in dv.supported
      temp_wb_working == "wb_temperature" \in dv.supported
      rgb_wb_working == responsive /\ dv.frames
                        /\ ({"wb_blue", "wb_red"} \cap dv.supported # {})
      methods == (IF auto_wb_working THEN {"auto"} ELSE {})
                 \cup (IF temp_wb_working THEN {"temperature"} ELSE {})
                 \cup (IF rgb_wb_working THEN {"rgb"} ELSE {})
      methods_tested == Cardinality({"auto_wb_test", "temperature_test", "rgb_test"})
      evaluation == white_balance_evaluation(methods, methods_tested)
  IN ProbeOutcomeWith(d4, evaluation.status, evaluation.detail)

\* _test_s5kgm1st_sensor_specific: four sub-tests, no restore block.
_test_s5kgm1st_sensor_specific(dv, responsive) ==
  LET resolutions_to_test == <<"8000x6000", "4000x3000", "1920x1080", "1280x720">>
      focus_positions == <<0, 64, 128, 192, 255>>
      gain_levels == <<0, 4, 8, 12, 16>>
      d1 == SetEachResolution(dv, resolutions_to_test)
      d2 == SetEach(Set(d1, "autofocus", 0), "focus", focus_positions)
      d3 == SetEach(d2, "gain", gain_levels)
      base_exposure == d3.controls.exposure
      d4 == SetEach(d3, "exposure",
                    <<base_exposure - 2, base_exposure, base_exposure + 2>>)
      pdaf_working == responsive /\ "focus" \in dv.supported
      hdr_working == responsive /\ "exposure" \in dv.supported
      passed_tests == 2 + (IF pdaf_working THEN 1 ELSE 0) + (IF hdr_working THEN 1 ELSE 0)
  IN ProbeOutcome(d4, IF passed_tests >= 2 THEN "PASS" ELSE "FAIL")

\* One probe has run on the device.
Ran(test_name, out) ==
  /\ last_probe.count < MaxProbes
  /\ device' = out.dv
  /\ last_probe' = [test_name |-> test_name, before |-> device, status |-> out.status,
                    detail |-> out.detail, count |-> last_probe.count + 1]
  /\ UNCHANGED <<frontend, not_probe>>

run_test_camera_detection ==
  /\ frontend = "probe"
  /\ Ran("Camera Detection", probe_test_camera_detection(device))

run_test_resolution ==
  /\ frontend = "probe"
  /\ Ran("Resolution Test", probe_test_resolution(device))

\* Exposure Control returning from its evaluation block
run_test_exposure_control ==
  /\ frontend = "probe"
  /\ \E brighter \in BOOLEAN :
       Ran("Exposure Control", _test_exposure_control(device, "none", brighter))

\* Exposure Control returning from its outer exception handler
run_test_exposure_control_error ==
  /\ frontend = "probe"
  /\ \E fail_at \in {"method1", "method2", "method3"} :
       Ran("Exposure Control error", _test_exposure_control(device, fail_at, FALSE))

run_test_white_balance ==
  /\ frontend = "probe"
  /\ \E responsive \in BOOLEAN :
       Ran("White Balance", _test_white_balance(device, responsive))

run_test_s5kgm1st_sensor_specific ==
  /\ frontend = "probe"
  /\ \E responsive \in BOOLEAN :
       Ran("S5KGM1ST Sensor Test", _test_s5kgm1st_sensor_specific(device, responsive))

NextProbe ==
  \/ run_test_camera_detection
  \/ run_test_resolution
  \/ run_test_exposure_control
  \/ run_test_exposure_control_error
  \/ run_test_white_balance
  \/ run_test_s5kgm1st_sensor_specific

\* The Exposure Control and White Balance probes on devices that lack any
\* of the controls these two probes use.
NextControls ==
  \/ run_test_exposure_control
  \/ run_test_exposure_control_error
  \/ run_test_white_balance

(***************************************************************************)
(* The Image Quality probe of main.py                                      *)
(***************************************************************************)

\* baseline metrics of the first frame, on both sides of each threshold
BaselineMetrics ==
  [sharpness : {40, 60}, brightness : {40, 120, 220}, contrast : {10, 30},
   noise_variance : {50, 150}]

\* best noise reduction (percent) found by the gain strategy and by the
\* software strategies
GainReductions == {0, 12, 20}
SoftwareReductions == {0, 12}

\* Step 4 of _test_image_quality and its result: the issues of the baseline,
\* the recommendations, and PASS / PASS with solutions / FAIL.
image_quality_assessment(baseline, gain_reduction, sw_reduction) ==
  LET high_noise == baseline.noise_variance > 100
      quality_issues ==
        (IF baseline.sharpness < 50 THEN {"Low sharpness"} ELSE {})
        \cup (IF baseline.brightness < 50 THEN {"Underexposed"}
              ELSE IF baseline.brightness > 200 THEN {"Overexposed"} ELSE {})
        \cup (IF baseline.contrast < 20 THEN {"Low contrast"} ELSE {})
        \cup (IF high_noise THEN {"High noise"} ELSE {})
      recommendations ==
        (IF baseline.sharpness < 50 THEN {"Check focus settings and lighting"} ELSE {})
        \cup (IF baseline.brightness < 50 THEN {"Increase exposure or gain"}
              ELSE IF baseline.brightness > 200 THEN {"Decrease exposure or gain"}
              ELSE {})
        \cup (IF baseline.contrast < 20 THEN {"Improve lighting"} ELSE {})
        \cup (IF high_noise /\ gain_reduction > 15 THEN {"Reduce gain"} ELSE {})
        \cup (IF high_noise /\ sw_reduction > 10 THEN {"Apply software method"} ELSE {})
      detail(message) ==
        [methods |-> recommendations, message |-> message, issues |-> quality_issues,
         gain_reduction |-> gain_reduction, sw_reduction |-> sw_reduction]
  IN IF quality_issues = {}
     THEN [status |-> "PASS", detail |-> detail("within acceptable range")]
     ELSE IF recommendations # {}
     THEN [status |-> "PASS", detail |-> detail("solutions available")]
     ELSE [status |-> "FAIL", detail |-> detail("Quality issues")]

\* _test_image_quality: without a first frame FAIL "Cannot capture frame";
\* the gain is lowered for the gain strategy and then restored.
_test_image_quality(dv, baseline, gain_reduction, sw_reduction) ==
  IF ~dv.frames THEN ProbeOutcome(dv, "FAIL")
  ELSE LET original_gain == dv.controls.gain
           test_gains == IF original_gain > 0
                         THEN <<original_gain \div 2, original_gain \div 4>>
                         ELSE <<50, 25, 10>>
           d1 == Set(SetEach(dv, "gain", test_gains), "gain", original_gain)
           assessment == image_quality_assessment(baseline, gain_reduction, sw_reduction)
       IN ProbeOutcomeWith(d1, assessment.status, assessment.detail)

run_test_image_quality ==
  /\ frontend = "probe"
  /\ \E baseline \in BaselineMetrics, gain_reduction \in GainReductions,
        sw_reduction \in SoftwareReductions :
       Ran("Image Quality",
           _test_image_quality(device, baseline, gain_reduction, sw_reduction))

NextQuality ==
  \/ run_test_camera_detection
  \/ run_test_image_quality

(***************************************************************************)
(* main_redesigned.py front-end: one worker thread serves the commands,    *)
(* runs the tests and produces the preview frames                          *)
(***************************************************************************)

\* frames the producer reads successfully (they are numbered 1, 2, ...)
MaxFrames == 4

\* commands waiting in command_queue, results waiting in result_queue
MaxCommands == 2
MaxResults == 2

\* preview_queue = queue.Queue(maxsize=2)
preview_queue_maxsize == 2

RedesignedTests == <<"Basic Connection", "Resolution Test">>

Commands == {"manual_connect", "disconnect", "run_tests", "stop_tests"}

\* a button: queue_command(command) puts the command for the worker
queue_command ==
  /\ frontend = "redesigned"
  /\ Len(command_queue) < MaxCommands
  /\ \E command \in Commands :
       /\ command_queue' = Append(command_queue, command)
       /\ rd_obs' = [rd_obs EXCEPT !.stop_during_run =
                       @ \/ (command = "stop_tests" /\ worker.pc = "run")]
  /\ UNCHANGED <<frontend, not_redesigned, redesigned, result_queue, preview_queue,
                 worker>>

\* connect_to_camera: release the old handle and keep the new VideoCapture
\* object whether it opened or not; preview_active only if it opened.
connect_to_camera(rd, opened) ==
  IF opened THEN [rd EXCEPT !.camera = "open", !.preview_active = TRUE]
  ELSE [rd EXCEPT !.camera = "unopened"]

disconnect_camera_background(rd) ==
  [rd EXCEPT !.preview_active = FALSE, !.camera = "none"]

stop_tests_background(rd) == [rd EXCEPT !.test_running = FALSE]

\* run_single_test: every probe returns a TestResult; an exception raised by
\* a probe is turned into a FAIL result by run_tests_background.
run_single_test(test_name, camera, frame, ok) ==
  IF test_name = "Basic Connection"
  THEN IF camera = "open" /\ frame THEN "PASS" ELSE "FAIL"
  ELSE IF camera = "open" /\ ok THEN "PASS" ELSE "FAIL"

\* run_tests_background up to the loop: no camera is an error; otherwise the
\* flag is set and the results are emptied before the selection is looked at.
run_tests_background_head(selected_tests) ==
  IF redesigned.camera # "open"
  THEN /\ result_queue' = Append(result_queue, "error")
       /\ UNCHANGED redesigned
       /\ worker' = [worker EXCEPT !.pc = "preview"]
  ELSE /\ redesigned' = [redesigned EXCEPT !.test_running = TRUE, !.test_results = <<>>]
       /\ IF selected_tests = <<>>
          THEN /\ result_queue' = Append(result_queue, "error")
               /\ worker' = [worker EXCEPT !.pc = "preview"]
          ELSE /\ result_queue' = Append(result_queue, "test_start")
               /\ worker' = [worker EXCEPT !.pc = "run",
                                           !.selected_tests = selected_tests, !.i = 0]

\* camera_worker, first half of an iteration: command_queue.get_nowait() and
\* handle_command.
camera_worker_command ==
  /\ frontend = "redesigned"
  /\ worker.pc = "command"
  /\ Len(result_queue) < MaxResults
  /\ IF command_queue = <<>>
     THEN /\ worker' = [worker EXCEPT !.pc = "preview"]
          /\ UNCHANGED <<command_queue, redesigned, result_queue>>
     ELSE /\ command_queue' = Tail(command_queue)
          /\ LET command == Head(command_queue) IN
             IF command = "run_tests"
             THEN \E selected_tests \in Selections(RedesignedTests) :
                    run_tests_background_head(selected_tests)
             ELSE /\ worker' = [worker EXCEPT !.pc = "preview"]
                  /\ UNCHANGED result_queue
                  /\ IF command = "manual_connect"
                     THEN \E opened \in BOOLEAN :
                            redesigned' = connect_to_camera(redesigned, opened)
                     ELSE IF command = "disconnect"
                     THEN redesigned' = disconnect_camera_background(redesigned)
                     ELSE redesigned' = stop_tests_background(redesigned)
  /\ UNCHANGED <<frontend, not_redesigned, preview_queue, rd_obs>>

\* run_tests_background, one pass of the loop over selected_tests (the worker
\* serves no command and reads no preview frame until the loop has ended).
run_tests_background_loop ==
  /\ frontend = "redesigned"
  /\ worker.pc = "run"
  /\ IF worker.i = Len(worker.selected_tests) \/ ~redesigned.test_running
     THEN /\ result_queue' = Append(result_queue, "tests_complete")
          /\ worker' = [worker EXCEPT !.pc = "preview"]
          /\ rd_obs' = [rd_obs EXCEPT !.stop_during_run = FALSE]
          /\ UNCHANGED redesigned
     ELSE \E frame \in BOOLEAN, ok \in BOOLEAN :
            LET test_name == worker.selected_tests[worker.i + 1]
                status == run_single_test(test_name, redesigned.camera, frame, ok)
            IN /\ redesigned' = [redesigned EXCEPT !.test_results = Append(@, status)]
               /\ result_queue' = result_queue \o <<"test_progress", "test_result">>
               /\ worker' = [worker EXCEPT !.i = @ + 1]
               /\ UNCHANGED rd_obs
  /\ UNCHANGED <<frontend, not_redesigned, command_queue, preview_queue>>

\* put_nowait on a Queue(maxsize): a full queue raises queue.Full and the
\* frame that was to be put is dropped.
put_nowait(q, frame) ==
  IF Len(q) < preview_queue_maxsize THEN Append(q, frame) ELSE q

\* camera_worker, second half of an iteration: read a frame and put it.
camera_worker_preview ==
  /\ frontend = "redesigned"
  /\ worker.pc = "preview"
  /\ worker' = [worker EXCEPT !.pc = "command"]
  /\ IF redesigned.preview_active /\ redesigned.camera = "open"
     THEN \E ret \in (IF rd_obs.last_frame < MaxFrames THEN BOOLEAN ELSE {FALSE}) :
            IF ret
            THEN LET frame == rd_obs.last_frame + 1 IN
                 /\ preview_queue' = put_nowait(preview_queue, frame)
                 /\ rd_obs' = [rd_obs EXCEPT !.last_frame = frame]
            ELSE UNCHANGED <<preview_queue, rd_obs>>
     ELSE UNCHANGED <<preview_queue, rd_obs>>
  /\ UNCHANGED <<frontend, not_redesigned, redesigned, command_queue, result_queue>>

\* update_preview (UI thread, every 33 ms): take one frame and display it.
rd_update_preview ==
  /\ frontend = "redesigned"
  /\ preview_queue # <<>>
  /\ preview_queue' = Tail(preview_queue)
  /\ rd_obs' = [rd_obs EXCEPT !.displayed = Head(preview_queue)]
  /\ UNCHANGED <<frontend, not_redesigned, redesigned, command_queue, result_queue,
                 worker>>

\* update_ui (UI thread, every 50 ms): drain result_queue into the widgets.
update_ui ==
  /\ frontend = "redesigned"
  /\ result_queue # <<>>
  /\ result_queue' = <<>>
  /\ UNCHANGED <<frontend, not_redesigned, redesigned, command_queue, preview_queue,
                 worker, rd_obs>>

NextRedesigned ==
  \/ queue_command
  \/ camera_worker_command
  \/ run_tests_background_loop
  \/ camera_worker_preview
  \/ rd_update_preview
  \/ update_ui

(***************************************************************************)
(* cli.py: the headless run and its JSON export                            *)
(***************************************************************************)

\* results of one headless run
MaxCliResults == 3

CliTests == {"Camera Detection", "Image Quality"}

\* The details of a TestResult, by what json can do with them:
\*   "None"  no details
\*   "dict"  a dict of Python ints, floats and strings
\*   "numpy" a dict that holds a numpy integer (dynamic_range of the
\*           quality metrics is np.max(gray) - np.min(gray), a numpy.uint8)
DetailsOf(test_name, status, frame) ==
  IF ~frame THEN "None"
  ELSE IF test_name = "Image Quality" THEN "numpy"
  ELSE IF status = "PASS" THEN "dict" ELSE "None"

\* the result a probe hands to the CLI
CliResult(test_name, status, frame) ==
  [test_name |-> test_name, status |-> status,
   details |-> DetailsOf(test_name, status, frame)]

\* run_headless_tests, one pass of its loop
cli_run_single_test ==
  /\ frontend = "cli"
  /\ cli.file = <<>>
  /\ Len(cli.results) < MaxCliResults
  /\ \E test_name \in CliTests, frame \in BOOLEAN, ok \in BOOLEAN :
       LET status == IF frame /\ ok THEN "PASS" ELSE "FAIL"
       IN cli' = [cli EXCEPT !.results = Append(@, CliResult(test_name, status, frame))]
  /\ UNCHANGED <<frontend, not_cli>>

Count(results, status) ==
  Cardinality({k \in DOMAIN results : results[k].status = status})

\* the "summary" object of the report
Summary(results) ==
  [total |-> Len(results), passed |-> Count(results, "PASS"),
   failed |-> Count(results, "FAIL"), skipped |-> Count(results, "SKIP")]

RECURSIVE DumpResults(_)
\* json.dump writes the list item by item and raises TypeError at the first
\* object it cannot encode; what was written before stays in the file.
DumpResults(results) ==
  IF results = <<>> THEN <<"]", "}">>
  ELSE IF Head(results).details = "numpy" THEN <<>>
  ELSE <<[test_name |-> Head(results).test_name, status |-> Head(results).status]>>
       \o DumpResults(Tail(results))

\* json.dump(report_data, f): the text of the file as a sequence of tokens
json_dump(results) ==
  <<"{", Summary(results), "[">> \o DumpResults(results)

\* save_results: open(filename, 'w') and json.dump; an exception is printed
save_results ==
  /\ frontend = "cli"
  /\ cli.file = <<>>
  /\ cli' = [cli EXCEPT !.file = json_dump(cli.results)]
  /\ UNCHANGED <<frontend, not_cli>>

\* json.load of a saved file: a text that does not end with the closing
\* brace is not a JSON document
json_load(text) ==
  IF text = <<>> \/ text[Len(text)] # "}" THEN [error |-> "JSONDecodeError"]
  ELSE [summary |-> text[2], results |-> SubSeq(text, 4, Len(text) - 2)]

NextCli ==
  \/ cli_run_single_test
  \/ save_results

(***************************************************************************)
(* Properties of the pyqt6 front-end                                       *)
(***************************************************************************)

\* The started / completed / all-completed signals of the current run, in
\* emission order (progress signals left out).
Lifecycle == SelectSeq(signals.emitted, LAMBDA e : e.sig # "progress_updated")

Completed == SelectSeq(signals.emitted, LAMBDA e : e.sig = "test_completed")

CompletedCount == Len(Completed)

StartedCount ==
  Len(SelectSeq(signals.emitted, LAMBDA e : e.sig = "test_started"))

\* C3: when stop is requested while probe k of n is executing, that probe
\* completes, no later probe is started, exactly k completed signals are
\* emitted and the all-completed handler reports the count k.
C3_CancelDuringProbeReportsK ==
  (gui.reported # NoReport /\ obs.stop_during > 0) =>
     /\ CompletedCount = obs.stop_during
     /\ StartedCount = obs.stop_during
     /\ gui.reported = <<obs.stop_during>>

\* C7: within a run every test_started is directly followed by the
\* test_completed of the same probe (no other started in between), every
\* test_completed directly follows its test_started, and all_tests_completed
\* is emitted exactly once, as the last signal of the run.
C7_SignalOrder ==
  LET ev == Lifecycle
      n  == Len(ev)
  IN /\ \A j \in 1..n :
          ev[j].sig = "test_started" /\ j < n =>
             ev[j+1].sig = "test_completed" /\ ev[j+1].test = ev[j].test
     /\ \A j \in 1..n :
          ev[j].sig = "test_completed" =>
             j > 1 /\ ev[j-1].sig = "test_started" /\ ev[j-1].test = ev[j].test
     /\ \A j \in 1..n : ev[j].sig = "all_tests_completed" => j = n
     /\ (test_worker.pc = "idle" /\ test_worker.tests_to_run # <<>>) =>
          n > 0 /\ ev[n].sig = "all_tests_completed"
     /\ (test_worker.pc = "probe") => n > 0 /\ ev[n].sig = "test_started"

\* A finished run of at least two probes, one of which raised.
C7_Witness ==
  /\ frontend = "pyqt6"
  /\ test_worker.pc = "idle"
  /\ CompletedCount >= 2
  /\ obs.raised # {}
  /\ gui.reported # NoReport

(***************************************************************************)
(* Properties of the main.py front-end                                     *)
(***************************************************************************)

\* results appended by thread t so far
Made(t) == IF threads[t].pc = "post" THEN threads[t].i + 1 ELSE threads[t].i

ResultNames == [k \in DOMAIN tester.test_results |-> tester.test_results[k].test_name]

\* C1: under any interleaving of run and stop requests at most one
\* test-sequence worker is active.
C1_AtMostOneWorker == Cardinality(Live(threads)) <= 1

\* C2: the results of a run on L arrive in the order of L (they form a prefix
\* of L), and a run stops short of L only when a stop was requested.
C2_ResultsArePrefixOfRequest ==
  [][/\ \A t \in RunIds :
          (threads'[t].pc \in {"head", "probe", "post"} /\ ~tk_obs'.cleared) =>
             ResultNames' = SubSeq(threads'[t].test_names, 1, Made(t)')
     /\ \A t \in RunIds :
          (threads[t].pc \in {"head", "post"} /\ threads'[t].pc = "done"
             /\ tester.is_testing) =>
             Made(t) = Len(threads[t].test_names)]_vars

\* C28: at most one preview update loop is active at any time: after any
\* sequence of connect, reconnect and disconnect there is never more than one
\* pending update_preview callback chain.
C28_AtMostOnePreviewChain ==
  frontend = "main" => tester.preview_chains <= 1

\* C29: whenever the stored camera handle is non-null it refers to an opened
\* device (a failed connection attempt leaves the handle cleared).
C29_StoredHandleIsOpened ==
  frontend = "main" => (tester.camera # None => IsOpened(tester.camera))

\* C16: after a probe has failed or the device was lost in mid-run, the
\* sequence still goes through every remaining requested probe: a worker
\* that ends while no stop was requested has made one result per request.
C16_EveryRemainingProbeRuns ==
  [][\A t \in RunIds :
       (threads[t].pc = "post" /\ threads'[t].pc = "done" /\ tester.is_testing) =>
          Made(t) = Len(threads[t].test_names)]_vars

\* C8: at most one handle is open, the one self.camera refers to: a connect
\* has released the previous handle before it opens the new one.
C8_OnlyTheCurrentHandleIsOpen ==
  \A h \in HandleIds : handles[h] = "open" => h = tester.camera

(***************************************************************************)
(* Properties of the main_complete.py front-end                            *)
(***************************************************************************)

\* C5: every probe the orchestrator has started and finished has produced
\* exactly one result, also when it raised or has no implementation.
C5_OneResultPerProbe ==
  \A t \in RunIds :
     cthreads[t].pc \in {"head", "probe"} => cthreads[t].made = cthreads[t].i

\* C6: a run request made while the orchestrator is running starts no new
\* worker and leaves the running flag and the results as they are.
C6_RunWhileRunningRejected ==
  [][complete.is_testing =>
       \A r \in RunIds : cthreads[r].pc = "unused" => cthreads'[r].pc = "unused"]_vars

(***************************************************************************)
(* Properties of the probes                                                *)
(***************************************************************************)

SameSettings(d, e) == d.controls = e.controls /\ d.resolution = e.resolution

\* C9: after the resolution, white balance and sensor probes return, every
\* control they wrote has its value from before the probe.
C9_ProbesRestoreControls ==
  last_probe.test_name \in {"Resolution Test", "White Balance", "S5KGM1ST Sensor Test"}
     => SameSettings(device, last_probe.before)

\* C10: after Exposure Control returns, by its evaluation or by its exception
\* handler, exposure, auto-exposure, brightness and gain have their values
\* from before the probe.
C10_ExposureControlRestores ==
  last_probe.test_name \in {"Exposure Control", "Exposure Control error"} =>
     \A c \in {"exposure", "auto_exposure", "brightness", "gain"} :
        device.controls[c] = last_probe.before.controls[c]

\* C21: Exposure Control returns PASS exactly when at least two of its three
\* methods work or the auto-exposure method alone works, and FAIL otherwise;
\* with auto-exposure alone the PASS carries the "limited manual control"
\* message.
C21_ExposureAggregateRule ==
  (frontend = "probe" /\ last_probe.test_name = "Exposure Control") =>
    LET methods == last_probe.detail.methods
        accepted == Cardinality(methods) >= 2 \/ methods = {"auto"}
    IN /\ last_probe.status = (IF accepted THEN "PASS" ELSE "FAIL")
       /\ methods = {"auto"} => last_probe.detail.message = "limited manual control"

\* auto-exposure toggling was the only working method of an Exposure Control run
C21_Witness ==
  /\ frontend = "probe"
  /\ last_probe.test_name = "Exposure Control"
  /\ last_probe.detail.methods = {"auto"}
  /\ last_probe.status = "PASS"

\* C22: White Balance returns PASS when auto white balance and at least one
\* other method work, PASS with the limited-control message when auto white
\* balance is the only working method, and FAIL when no method works.
C22_WhiteBalanceAggregateRule ==
  (frontend = "probe" /\ last_probe.test_name = "White Balance") =>
    LET methods == last_probe.detail.methods
    IN /\ ("auto" \in methods /\ Cardinality(methods) >= 2) =>
            /\ last_probe.status = "PASS"
            /\ last_probe.detail.message # "limited manual control"
       /\ methods = {"auto"} =>
            /\ last_probe.status = "PASS"
            /\ last_probe.detail.message = "limited manual control"
       /\ methods = {} => last_probe.status = "FAIL"

\* auto white balance was the only working method of a White Balance run
C22_Witness ==
  /\ frontend = "probe"
  /\ last_probe.test_name = "White Balance"
  /\ last_probe.detail.methods = {"auto"}
  /\ last_probe.status = "PASS"

WhiteBalanceControls == {"auto_wb", "wb_temperature", "wb_blue", "wb_red"}

\* C30: a camera on which none of the three white-balance methods could be
\* tested yields SKIP from the White Balance probe, not FAIL.
C30_NoWhiteBalanceControlsSkips ==
  (frontend = "probe" /\ last_probe.test_name = "White Balance"
     /\ last_probe.before.supported \cap WhiteBalanceControls = {})
    => last_probe.status = "SKIP"

\* C23: the Resolution probe counts a candidate as supported only if the
\* read-back matches AND a frame can be read at that setting; on a device
\* that delivers no frame no candidate is supported and the probe fails.
C23_SupportedNeedsAFrame ==
  (frontend = "probe" /\ last_probe.test_name = "Resolution Test"
     /\ ~last_probe.before.frames)
    => last_probe.status = "FAIL"

\* C24: Image Quality returns PASS if the baseline meets every threshold;
\* otherwise it returns PASS (with a recommendation) only if some
\* noise-reduction strategy yields more than 10% reduction, and FAIL in every
\* other case.
C24_QualityPassNeedsAStrategy ==
  (frontend = "probe" /\ last_probe.test_name = "Image Quality"
     /\ last_probe.before.frames) =>
    LET d == last_probe.detail
        strategy == d.gain_reduction > 10 \/ d.sw_reduction > 10
    IN last_probe.status =
         (IF d.issues = {} \/ strategy THEN "PASS" ELSE "FAIL")

\* C25: serializing the export record of a run and deserializing it again
\* reproduces the same summary counts and the same number of results.
C25_ExportRoundTrip ==
  (frontend = "cli" /\ cli.file # <<>>) =>
    LET loaded == json_load(cli.file)
    IN /\ "summary" \in DOMAIN loaded
       /\ loaded.summary = Summary(cli.results)
       /\ Len(loaded.results) = Len(cli.results)

\* C17: on an open device that never delivers a frame, Camera Detection
\* returns FAIL and the frame-dependent Exposure Control probe returns FAIL
\* as well, never PASS.
C17_NoFramesNeverPass ==
  (frontend = "probe" /\ ~last_probe.before.frames
     /\ last_probe.test_name \in {"Camera Detection", "Exposure Control",
                                  "Exposure Control error"})
    => last_probe.status = "FAIL"

(***************************************************************************)
(* Exceptions escaping a probe (pyqt6 and main.py)                         *)
(***************************************************************************)

\* the results of main.py that _run_single_test made of an exception
TestErrors ==
  {k \in DOMAIN tester.test_results : tester.test_results[k].message = "Test error"}

IsPrefix(s, t) == Len(s) <= Len(t) /\ SubSeq(t, 1, Len(s)) = s

\* C20: the result list only grows by appending, and is emptied only by the
\* clear-results action: no other command removes a recorded result.
C20_ResultsAppendOnly ==
  [][/\ \/ IsPrefix(gui.test_results, gui'.test_results)
        \/ (gui'.test_results = <<>> /\ obs'.cleared)
     /\ \/ IsPrefix(tester.test_results, tester'.test_results)
        \/ (tester'.test_results = <<>> /\ tk_obs'.cleared)]_vars

(***************************************************************************)
(* Properties of the preview thread (pyqt6)                                *)
(***************************************************************************)

\* a producer read on the handle is in progress
ProducerReading == camera_thread.run = "read" /\ camera_thread.camera = "open"

\* a probe of the worker is executing its device calls on the handle
ProbeExecuting == test_worker.pc = "probe"

\* C11: device calls are serialized between the frame producer and the
\* worker: while a probe is executing, no producer read on the same handle
\* is in progress.
C11_DeviceCallsSerialized ==
  frontend = "pyqt6" => ~(ProducerReading /\ ProbeExecuting)

\* C14: across any sequence of connect (successful or failed), disconnect,
\* start and stop, the producer is never marked running while no open handle
\* exists.
C14_RunningOnlyWithOpenHandle ==
  frontend = "pyqt6" => (camera_thread.running => camera_thread.camera = "open")

\* C27: once disconnect_camera has run while the preview thread was
\* streaming, the producer loop takes no further read step on the handle (the step that reads the device or, on a cleared
\* handle, emits the frame-capture error).
C27_NoReadAfterDisconnect ==
  [][(frontend = "pyqt6" /\ camera_thread.disconnected /\ camera_thread.run = "read")
       => camera_thread'.run = "read"]_vars

\* C15: while streaming, three consecutive failed reads raise a device-lost
\* signal (the only signal the loop has for a fault is error_occurred).
C15_ThreeFailedReadsRaiseDeviceLost ==
  frontend = "pyqt6" =>
    (camera_thread.fails >= 3 => camera_thread.signal = "error_occurred")

(***************************************************************************)
(* Properties of the frame mailbox (main_redesigned.py)                    *)
(***************************************************************************)

\* C12: if the consumer never takes a frame, the mailbox holds at most one
\* frame after any number of producer cycles.
C12_MailboxHoldsAtMostOneFrame ==
  frontend = "redesigned" =>
    (rd_obs.displayed = 0 => Len(preview_queue) <= 1)

\* C13: after a successful read the mailbox holds that newest frame until
\* the consumer takes it: an older unconsumed frame is dropped, never the
\* new one.
C13_NewestFrameKept ==
  frontend = "redesigned" =>
    (rd_obs.last_frame > rd_obs.displayed =>
       /\ preview_queue # <<>>
       /\ preview_queue[Len(preview_queue)] = rd_obs.last_frame)

\* a run request was turned down: handle_command put an error for the UI
RunRejected ==
  /\ frontend = "redesigned"
  /\ worker.pc = "command"
  /\ command_queue # <<>> /\ Head(command_queue) = "run_tests"
  /\ result_queue' = Append(result_queue, "error")

\* C19: a run request with an empty selection, or without an open device, is
\* reported as an error, runs no probe, and leaves the running flag and the
\* stored results as they were.
C19_RejectedRunChangesNothing ==
  [][RunRejected =>
       /\ worker'.pc # "run"
       /\ redesigned'.test_running = redesigned.test_running
       /\ redesigned'.test_results = redesigned.test_results]_vars

\* a stop_tests command was enqueued after the run now executing had begun
StopEnqueued ==
  /\ rd_obs.stop_during_run
  /\ \E k \in DOMAIN command_queue : command_queue[k] = "stop_tests"

\* C26: while a run is executing and a stop_tests command has been enqueued,
\* no further probe of the run is started: the stop is applied first, so the
\* list of results of the run does not grow any more.
C26_StopAppliedBeforeRemainingProbes ==
  [][(frontend = "redesigned" /\ worker.pc = "run" /\ StopEnqueued)
       => Len(redesigned'.test_results) <= Len(redesigned.test_results)]_vars

\* C18: every started run eventually returns the orchestrator to Idle: the
\* running flag set by a run request is eventually cleared.
C18_RunReturnsToIdle ==
  (frontend = "redesigned" /\ redesigned.test_running) ~> ~redesigned.test_running

(***************************************************************************)
(* Initial state and specifications                                        *)
(***************************************************************************)

InitQtVars ==
  /\ camera_thread = [camera |-> "none", running |-> FALSE, run |-> "idle",
                      fails |-> 0, signal |-> "none", disconnected |-> FALSE]
  /\ test_worker = [pc |-> "idle", tests_to_run |-> <<>>, should_stop |-> FALSE, i |-> 0]
  /\ signals = [emitted |-> <<>>, delivered |-> 0]
  /\ gui = [test_results |-> <<>>, buttons_enabled |-> TRUE, progress_bar |-> 0,
            reported |-> NoReport, warning |-> ""]
  /\ obs = [stop_during |-> 0, cleared |-> FALSE, raised |-> {}]

InitTkVars ==
  /\ tester = [camera |-> None, is_testing |-> FALSE, test_results |-> <<>>,
               preview_chains |-> 0]
  /\ handles = [h \in HandleIds |-> "unused"]
  /\ threads = [t \in RunIds |-> NoThread]
  /\ tk_obs = [cleared |-> FALSE]

InitCompleteVars ==
  /\ complete = [camera |-> "none", is_testing |-> FALSE, test_results |-> <<>>]
  /\ cthreads = [t \in RunIds |-> NoWorker]

InitRedesignedVars ==
  /\ redesigned = [camera |-> "none", preview_active |-> FALSE, test_running |-> FALSE,
                   test_results |-> <<>>]
  /\ command_queue = <<>>
  /\ result_queue = <<>>
  /\ preview_queue = <<>>
  /\ worker = [pc |-> "command", selected_tests |-> <<>>, i |-> 0]
  /\ rd_obs = [last_frame |-> 0, displayed |-> 0, stop_during_run |-> FALSE]

InitCliVars == cli = [results |-> <<>>, file |-> <<>>]

\* a device of the default kind, with every control and one mode
DefaultDevice ==
  [controls |-> DefaultControls, supported |-> Controls, max_mode |-> 2, resolution |-> 2,
   frames |-> TRUE]

NoProbe == [test_name |-> "none", before |-> DefaultDevice, status |-> "none",
            detail |-> NoDetail, count |-> 0]

InitProbeVars ==
  /\ device = DefaultDevice
  /\ last_probe = NoProbe

\* the devices the probes are run on
InitDevices ==
  /\ \E missing \in SUBSET Controls, max_mode \in 1..MaxMode, frames \in BOOLEAN :
       /\ Cardinality(missing) <= MaxMissing
       /\ \E resolution \in 1..max_mode :
            device = [controls |-> DefaultControls, supported |-> Controls \ missing,
                      max_mode |-> max_mode, resolution |-> resolution,
                      frames |-> frames]
  /\ last_probe = NoProbe

InitFor(f) ==
  /\ frontend = f
  /\ InitQtVars
  /\ InitTkVars
  /\ InitCompleteVars
  /\ InitProbeVars
  /\ InitRedesignedVars
  /\ InitCliVars

SpecQt == InitFor("pyqt6") /\ [][NextQt]_vars

SpecPreview == InitFor("pyqt6") /\ [][NextPreview]_vars

SpecTk == InitFor("main") /\ [][NextTk]_vars

SpecCli == InitFor("cli") /\ [][NextCli]_vars

SpecComplete == InitFor("complete") /\ [][NextComplete]_vars

SpecRedesigned == InitFor("redesigned") /\ [][NextRedesigned]_vars

\* The worker thread keeps running (daemon thread, while True) and the Tk
\* timers of update_preview and update_ui re-arm themselves; the buttons are
\* pressed or not as the user likes.
FairSpecRedesigned ==
  /\ SpecRedesigned
  /\ WF_vars(camera_worker_command)
  /\ WF_vars(run_tests_background_loop)
  /\ WF_vars(camera_worker_preview)
  /\ WF_vars(rd_update_preview)
  /\ WF_vars(update_ui)

InitProbe ==
  /\ frontend = "probe"
  /\ InitQtVars
  /\ InitTkVars
  /\ InitCompleteVars
  /\ InitRedesignedVars
  /\ InitCliVars
  /\ InitDevices

SpecProbe == InitProbe /\ [][NextProbe]_vars

\* the controls read and written by Exposure Control and White Balance
ProbedControls == {"exposure", "auto_exposure", "brightness", "gain", "auto_wb",
                   "wb_temperature", "wb_blue", "wb_red"}

\* the devices these two probes are run on: any of their controls may be
\* missing, with and without frames
InitControls ==
  /\ frontend = "probe"
  /\ InitQtVars
  /\ InitTkVars
  /\ InitCompleteVars
  /\ InitRedesignedVars
  /\ InitCliVars
  /\ \E missing \in SUBSET ProbedControls, frames \in BOOLEAN :
       device = [DefaultDevice EXCEPT !.supported = Controls \ missing,
                                      !.frames = frames]
  /\ last_probe = NoProbe

SpecControls == InitControls /\ [][NextControls]_vars

\* the devices the Image Quality probe is run on: with and without frames
InitQuality ==
  /\ frontend = "probe"
  /\ InitQtVars
  /\ InitTkVars
  /\ InitCompleteVars
  /\ InitRedesignedVars
  /\ InitCliVars
  /\ \E frames \in BOOLEAN : device = [DefaultDevice EXCEPT !.frames = frames]
  /\ last_probe = NoProbe

SpecQuality == InitQuality /\ [][NextQuality]_vars

\* The two front-ends whose workers turn exceptions into results.
InitEngines == \E f \in {"pyqt6", "main"} : InitFor(f)

NextEngines == NextQt \/ NextTk

SpecEngines == InitEngines /\ [][NextEngines]_vars

====
